---- MODULE Spec2Model ----
(***************************************************************************)
(* Model of the octane voxel renderer: the sparse, pointer-free octree     *)
(* store (crates/common/src/octree.rs) and the frame submission protocol   *)
(* of the renderer (crates/common/src/render.rs, libs/vk/src/lib.rs).      *)
(*                                                                         *)
(* Array indices are the 0-based indices of the Rust code; the TLA+        *)
(* sequence holding the node array is read through Get, which adds one.    *)
(***************************************************************************)
EXTENDS Integers, Sequences, FiniteSets, TLC

VARIABLES
    data,       \* Octree::data, the flat node array
    size,       \* Octree::size, the depth place() encodes with
    history,    \* ghost: the hierarchies of the completed insertions, in order
    ret,        \* ghost: the last call on the store and what it returned
    enc,        \* the encoder's call under test: input and returned masks
    rpc,        \* where the host thread stands: between calls or inside draw_batch
    fence,      \* Vulkan::in_flight_fence: "signaled" or "unsignaled"
    inFlight,   \* a draw submission is executing on the GPU
    renderData, \* Vulkan::render_data, an Option
    computeData,\* Vulkan::compute_data, an Option
    shaders,    \* Vulkan::shaders: the paths that have a cached module
    lastBatch,  \* Vulkan::last_batch
    extent,     \* Vulkan::render_info.extent
    swapchains, \* the number of swapchains created so far
    outcome,    \* ghost: how the last draw_batch / resize call ended
    calls,      \* ghost: the number of draw_batch calls started
    resizes,    \* ghost: the number of resize calls
    batchArg,   \* the batch argument of the current (or last) draw_batch call
    copies,     \* the upload submissions executing on the GPU
    mod_time,   \* the modification time of each shader source on disk
    compiles,   \* whether the source as it stands on disk compiles
    shader_mod_time, \* Vulkan::shader_mod_time, by out_path; 0: no entry yet
    ubo_resolution,  \* Vulkan::ubo.resolution, two floats
    acquired,   \* the live GPU objects of the renderer, in acquisition order
    released,   \* the GPU objects the drop released, in order
    frame,      \* ghost: what the last draw_batch call compiled and loaded
    destroyed,  \* ghost: what the last step destroyed, and was the GPU idle
    edited,     \* ghost: a source was saved since the last draw_batch call
    boot,       \* Vulkan::init at its device selection: the locals it has bound
    instances   \* Vulkan::ubo.render_distance, and what the current draw_batch
                \* call uploaded as instance offsets and drew

octreeVars == <<data, size, history, ret>>

rendererVars == <<rpc, fence, inFlight, renderData, computeData, shaders, lastBatch,
                  extent, swapchains, outcome, calls, resizes, batchArg, copies,
                  mod_time, compiles, shader_mod_time, ubo_resolution, acquired,
                  released, frame, destroyed, edited>>

vars == <<data, size, history, ret, enc, rpc, fence, inFlight, renderData, computeData,
          shaders, lastBatch, extent, swapchains, outcome, calls, resizes, batchArg,
          copies, mod_time, compiles, shader_mod_time, ubo_resolution, acquired,
          released, frame, destroyed, edited, boot, instances>>

----------------------------------------------------------------------------
(* Program constants *)

\* u32::MAX, the "no children" sentinel of Node::child. TLC's integers are
\* 32-bit signed, so the sentinel is written as the largest of them; the code
\* only compares it and uses it as an index far outside the array (Offset)
U32Max == 2147483647

\* Node::default().block, the "unset/air" payload
DefaultBlock == 42069

\* the depth place() hardcodes into self.size
PlaceSize == 8

(* Bounds of the model *)

\* the number of completed insertions (place / add_node) in one behaviour
MaxInserts == 3

\* the encoder is run on every coordinate of the domain up to this depth,
\* and on the corners and the middle of the domain for the deeper ones
MaxFullDepth == 3

\* the number of draw_batch calls the host loop makes in one behaviour
MaxCalls == 3

\* the number of resize events in one behaviour
MaxResizes == 1

\* the number of times each shader source is saved in one behaviour
MaxEdits == 1

\* the devices the instance enumerates, at most
MaxDevices == 3

\* the queue families the chosen device reports, at most
MaxFamilies == 3

\* the largest render distance init is given
MaxRenderDistance == 8

----------------------------------------------------------------------------
(* u32 / u8 bit arithmetic *)

RECURSIVE CountOnes(_)
CountOnes(v) == IF v = 0 THEN 0 ELSE (v % 2) + CountOnes(v \div 2)

RECURSIVE BitAnd(_, _)
BitAnd(a, b) ==
    IF a = 0 \/ b = 0 THEN 0
    ELSE (a % 2) * (b % 2) + 2 * BitAnd(a \div 2, b \div 2)

RECURSIVE BitOr(_, _)
BitOr(a, b) ==
    IF a = 0 THEN b
    ELSE IF b = 0 THEN a
    ELSE (IF a % 2 = 1 \/ b % 2 = 1 THEN 1 ELSE 0) + 2 * BitOr(a \div 2, b \div 2)

----------------------------------------------------------------------------
(* Node and the node array *)

\* faulty variant of DefaultNode: child index 0 instead of the sentinel
DefaultNodeZeroChild == [child |-> 0, valid |-> 0, block |-> DefaultBlock]

\* Node::default()
DefaultNode == [child |-> U32Max, valid |-> 0, block |-> DefaultBlock]

\* self.data[i]; the caller checks InBounds first (Rust panics otherwise)
Get(d, i) == d[i + 1]

InBounds(d, i) == i >= 0 /\ i < Len(d)

\* base as usize + i: an index made from the sentinel stays outside the array
Offset(base, i) == IF base = U32Max THEN U32Max ELSE base + i

\* Vec::insert(i, e): shifts everything from i on to the right
VecInsert(d, i, e) == SubSeq(d, 1, i) \o <<e>> \o SubSeq(d, i + 1, Len(d))

\* faulty variant of MaskOk: the check is missing
MaskNoCheck(mask) == TRUE

\* mask.count_ones() != 1  =>  panic!("invalid mask")
MaskOk(mask) == CountOnes(mask) = 1

\* faulty variant of ChildSlot: masks with `mask` instead of `mask - 1`
ChildSlotNoDecrement(valid, mask) == CountOnes(BitAnd(valid, mask))

\* p = (valid & (mask as u32 - 1)).count_ones(): the rank of the octant
\* among the valid octants of the node
ChildSlot(valid, mask) == CountOnes(BitAnd(valid, mask - 1))

\* faulty variant of NewChildSlot: the new child goes to the end of the run
NewChildSlotEnd(valid, mask) == CountOnes(valid) - 1

\* the p recomputed from the updated mask, where the new child is inserted
NewChildSlot(valid, mask) == CountOnes(BitAnd(valid, mask - 1))

\* faulty variant of NewRunBase: the run grows in place at its old base
NewRunBaseInPlace(d, node) == IF node.child = U32Max THEN Len(d) ELSE node.child

\* self.data[index].child = self.data.len(): the new run starts at the end
NewRunBase(d, node) == Len(d)

\* faulty variant of HasChild: the sentinel comparison is inverted
HasChildInverted(node, mask) ==
    BitAnd(node.valid, mask) = mask /\ node.child = U32Max

\* valid & mask == mask && child != u32::MAX
HasChild(node, mask) ==
    BitAnd(node.valid, mask) = mask /\ node.child # U32Max

----------------------------------------------------------------------------
(* Octree::add_node *)

\* faulty variant of CopyRun: the old siblings are not copied to the new run
CopyRunSkipped(st, index, old, q, i) == st

\* for i in 0..q { self.data.insert(child + i, self.data[node.child + i]) }
\* st = [data, panic]; index is the node gaining a child, old its snapshot
RECURSIVE CopyRun(_, _, _, _, _)
CopyRun(st, index, old, q, i) ==
    IF i >= q \/ st.panic THEN st
    ELSE LET x == Offset(Get(st.data, index).child, i)
             y == Offset(old.child, i)
         IN  IF ~InBounds(st.data, y) \/ x > Len(st.data)
             THEN [st EXCEPT !.panic = TRUE]
             ELSE CopyRun([st EXCEPT !.data = VecInsert(st.data, x, Get(st.data, y))],
                          index, old, q, i + 1)

\* the else branch of the loop body: the node at index gains the child mask
NewChild(d, index, mask) ==
    LET node == Get(d, index)
        d1 == [d EXCEPT ![index + 1].valid = BitOr(node.valid, mask)]
        p == NewChildSlot(Get(d1, index).valid, mask)
        q == CountOnes(Get(d1, index).valid) - 1
        d2 == [d1 EXCEPT ![index + 1].child = NewRunBase(d1, node)]
        c == CopyRun([data |-> d2, panic |-> FALSE], index, node, q, 0)
        child == Offset(Get(c.data, index).child, p)
    IN  IF c.panic \/ child > Len(c.data)
        THEN [data |-> c.data, index |-> index, panic |-> TRUE]
        ELSE [data |-> VecInsert(c.data, child, DefaultNode),
              index |-> child, panic |-> FALSE]

\* one iteration of the loop over the hierarchy; st = [data, index, panic]
AddNodeStep(st, mask) ==
    IF st.panic THEN st
    ELSE IF ~MaskOk(mask) \/ ~InBounds(st.data, st.index)
    THEN [st EXCEPT !.panic = TRUE]
    ELSE LET node == Get(st.data, st.index)
             p == ChildSlot(node.valid, mask)
         IN  IF HasChild(node, mask)
             THEN [st EXCEPT !.index = Offset(node.child, p)]
             ELSE NewChild(st.data, st.index, mask)

RECURSIVE AddNodeLoop(_, _, _)
AddNodeLoop(st, hierarchy, level) ==
    IF level > Len(hierarchy) THEN st
    ELSE AddNodeLoop(AddNodeStep(st, hierarchy[level]), hierarchy, level + 1)

\* returns [data, index, panic]: the array after the call, the index of the
\* node returned as Some(&mut self.data[index]), or panic with the array as
\* the levels walked before the panic left it
add_node(d, hierarchy) ==
    LET st == AddNodeLoop([data |-> d, index |-> 0, panic |-> FALSE], hierarchy, 1)
    IN  IF ~st.panic /\ ~InBounds(st.data, st.index)
        THEN [st EXCEPT !.panic = TRUE]
        ELSE st

----------------------------------------------------------------------------
(* Octree::get_node *)

\* st = [index, kind, defensive]; kind is "walk" while descending
GetNodeStep(d, st, mask) ==
    IF st.kind # "walk" THEN st
    ELSE IF ~MaskOk(mask) \/ ~InBounds(d, st.index)
    THEN [st EXCEPT !.kind = "panic"]
    ELSE LET node == Get(d, st.index)
             p == ChildSlot(node.valid, mask)
         IN  IF HasChild(node, mask)
             THEN [st EXCEPT !.index = Offset(node.child, p)]
             ELSE [st EXCEPT !.kind = "None",
                             !.defensive = (BitAnd(node.valid, mask) = mask)]

RECURSIVE GetNodeLoop(_, _, _, _)
GetNodeLoop(d, st, hierarchy, level) ==
    IF level > Len(hierarchy) THEN st
    ELSE GetNodeLoop(d, GetNodeStep(d, st, hierarchy[level]), hierarchy, level + 1)

\* returns [kind, index, block, defensive]: kind is "Some", "None" or "panic";
\* defensive tells that None came from a valid bit whose node has no children
get_node(d, hierarchy) ==
    LET st == GetNodeLoop(d, [index |-> 0, kind |-> "walk", defensive |-> FALSE],
                          hierarchy, 1)
    IN  IF st.kind = "walk"
        THEN IF InBounds(d, st.index)
             THEN [kind |-> "Some", index |-> st.index,
                   block |-> Get(d, st.index).block, defensive |-> FALSE]
             ELSE [kind |-> "panic", index |-> st.index,
                   block |-> DefaultBlock, defensive |-> FALSE]
        ELSE [kind |-> st.kind, index |-> st.index,
              block |-> DefaultBlock, defensive |-> st.defensive]

----------------------------------------------------------------------------
(* Octree::get_position_hierarchy *)

Pow2(n) == 2 ^ n

\* (x >= hsize) as u8
Bit(b) == IF b THEN 1 ELSE 0

\* faulty variant of OctantIndex: z is the most significant axis
OctantIndexSwapped(px, py, pz) == px + py * 2 + pz * 4

\* index = px * 4 + py * 2 + pz

OctantIndex(px, py, pz) == px * 4 + py * 2 + pz

\* faulty variant of OctantMask: the index itself, not shifted
OctantMaskUnshifted(index) == index

\* let mask = 1 << index, a u8

OctantMask(index) == Pow2(index) % 256

\* faulty variant of EncodeLevel: a coordinate on the boundary stays below
EncodeLevelStrict(st, hsize) ==
    LET px == Bit(st.x > hsize)
        py == Bit(st.y > hsize)
        pz == Bit(st.z > hsize)
    IN  [x |-> st.x - px * hsize,
         y |-> st.y - py * hsize,
         z |-> st.z - pz * hsize,
         hierarchy |-> Append(st.hierarchy, OctantMask(OctantIndex(px, py, pz)))]

\* the loop body for one level, hsize already halved; st = [x, y, z, hierarchy]
EncodeLevel(st, hsize) ==
    LET px == Bit(st.x >= hsize)
        py == Bit(st.y >= hsize)
        pz == Bit(st.z >= hsize)
    IN  [x |-> st.x - px * hsize,
         y |-> st.y - py * hsize,
         z |-> st.z - pz * hsize,
         hierarchy |-> Append(st.hierarchy, OctantMask(OctantIndex(px, py, pz)))]

RECURSIVE EncodeLoop(_, _, _, _)
EncodeLoop(st, hsize, i, n) ==
    IF i >= n THEN st
    ELSE EncodeLoop(EncodeLevel(st, hsize \div 2), hsize \div 2, i + 1, n)

get_position_hierarchy(sz, x, y, z) ==
    EncodeLoop([x |-> x, y |-> y, z |-> z, hierarchy |-> <<>>], Pow2(sz), 0, sz).hierarchy

----------------------------------------------------------------------------
(* The renderer: Vulkan::init, draw_batch, resize, drop, and the GPU *)

\* Batch::default(): four empty paths
DefaultBatch ==
    [vertex_shader |-> "", fragment_shader |-> "", seed_shader |-> "", jfa_shader |-> ""]

\* the batches the host loop draws with: the default one, one with another
\* vertex shader and one with another seed shader
Batches ==
    {[vertex_shader |-> "default.vs.spirv", fragment_shader |-> "default.fs.spirv",
      seed_shader |-> "seed.cs.spirv", jfa_shader |-> "jfa.cs.spirv"],
     [vertex_shader |-> "debug.vs.spirv", fragment_shader |-> "default.fs.spirv",
      seed_shader |-> "seed.cs.spirv", jfa_shader |-> "jfa.cs.spirv"],
     [vertex_shader |-> "default.vs.spirv", fragment_shader |-> "default.fs.spirv",
      seed_shader |-> "flood.cs.spirv", jfa_shader |-> "jfa.cs.spirv"]}

\* the compiled shaders a rescan of the source directory can replace: the
\* out_path of each source file the directory holds
RescanPaths == {"default.vs.spirv", "jfa.cs.spirv"}

\* the order in which read_dir yields the sources
SourceOrder == <<"default.vs.spirv", "jfa.cs.spirv">>

\* the resolution of the resize events
Resolutions == {<<1920, 1080>>}

\* `n as f32` for a u32: exact below 2^24, else rounded to the nearest
\* float (24 bits of mantissa), ties to even
RECURSIVE Ulp(_, _)
Ulp(n, u) == IF n < 16777216 THEN u ELSE Ulp(n \div 2, 2 * u)

AsF32(n) ==
    LET u == Ulp(n, 1)
        lo == n - (n % u)
        r == n % u
    IN  IF 2 * r < u THEN lo
        ELSE IF 2 * r > u THEN lo + u
        ELSE IF (lo \div u) % 2 = 0 THEN lo ELSE lo + u

\* render_data = None, compute_data = None
NoRenderData ==
    [present |-> FALSE, vertex_shader |-> "", fragment_shader |-> "",
     extent |-> <<0, 0>>, swapchain |-> 0, old_swapchain |-> 0]

NoComputeData ==
    [present |-> FALSE, seed_shader |-> "", jfa_shader |-> "", generation |-> 0]

\* VulkanRenderData::init(device, physical_device, surface, shaders,
\* old_swapchain, render_info): a new swapchain, made from the old one if any
RenderDataInitStaleExtent(vs, fs, old, ext, id) ==
    [present |-> TRUE, vertex_shader |-> vs, fragment_shader |-> fs,
     extent |-> IF old.present THEN old.extent ELSE ext,
     swapchain |-> id, old_swapchain |-> IF old.present THEN old.swapchain ELSE 0]

RenderDataInit(vs, fs, old, ext, id) ==
    [present |-> TRUE, vertex_shader |-> vs, fragment_shader |-> fs, extent |-> ext,
     swapchain |-> id, old_swapchain |-> IF old.present THEN old.swapchain ELSE 0]

\* VulkanComputeData::init(device, seed_shader, jfa_shader); generation
\* tells one build of the compute pipelines from the next
ComputeDataInit(seed, jfa, old) ==
    [present |-> TRUE, seed_shader |-> seed, jfa_shader |-> jfa,
     generation |-> old.generation + 1]

\* the GPU objects Vulkan::init acquires that have a destructor, in the
\* order of their acquisition
InitOrder ==
    <<"instance", "debug_utils_messenger", "surface", "device", "command_pool",
      "image_available_semaphore", "render_finished_semaphore", "in_flight_fence",
      "instance_buffer", "data_buffer", "staging_buffer",
      "cubelet_data_view", "cubelet_sdf_view">>

\* the fields of struct Vulkan that own such objects, in declaration order,
\* which is the order Rust drops them in. The device is an Rc: it is
\* destroyed when its last clone goes, and the cached shader modules, which
\* are dropped after the device field, each hold one
DropOrder(cache) ==
    <<"cubelet_sdf_view", "cubelet_data_view", "instance_buffer", "data_buffer",
      "staging_buffer", "image_available_semaphore", "render_finished_semaphore",
      "in_flight_fence", "command_pool", "render_data", "compute_data">>
    \o (IF cache = {} THEN <<"device">> ELSE <<"shaders", "device">>)
    \o <<"surface", "debug_utils_messenger", "instance">>

Range(s) == {s[i] : i \in 1..Len(s)}

Without(s, obj) == SelectSeq(s, LAMBDA o : o # obj)

\* obj has just been built: it is the latest acquisition
Reacquire(s, obj) == Append(Without(s, obj), obj)

\* the shader cache as one owner of GPU objects: acquired when its first
\* module is loaded, gone when it is empty
TrackShaders(s, cache) ==
    IF cache = {} THEN Without(s, "shaders")
    ELSE IF "shaders" \in Range(s) THEN s ELSE Append(s, "shaders")

\* the size in bytes of instance_buffer
InstanceBufferSize == 32768

\* BufferCopy { src_offset: 0, dst_offset: 0, size: 32768 } of the instance upload
InstanceCopySize == 32768

\* size_of::<Vector<f32, 3>>(), one per-chunk offset
OffsetSize == 12

\* let ct = 2 * self.ubo.render_distance as usize, and the three nested loops
\* over 0..ct pushing one offset each
InstanceOffsets(render_distance) ==
    LET ct == 2 * render_distance
    IN  ct * ct * ct

\* let chunks = 2 * self.ubo.render_distance as u32; chunks * chunks * chunks.
\* The products are u32; for the render distances up to MaxRenderDistance
\* they stay far below 2^32
InstanceVolume(render_distance) ==
    LET chunks == 2 * render_distance
    IN  chunks * chunks * chunks

\* ubo.render_distance = render_distance as u32 in init; nothing uploaded
\* or drawn yet
NoInstances(render_distance) ==
    [render_distance |-> render_distance, offsets |-> 0, copied |-> 0, drawn |-> 0]

\* ghost: what the last draw_batch call did
NoFrame == [compiled |-> {}, failed |-> FALSE, loaded |-> {}, repeat |-> FALSE,
            events |-> <<>>]

\* ghost: what the last step destroyed, and whether the GPU was idle then
NoDestroy == [objects |-> {}, idle |-> TRUE]

\* Vulkan::init: the fence is created signalled (Fence::new sets flag 0x1)
VulkanInit ==
    /\ rpc = "idle"
    /\ fence = "signaled"
    /\ inFlight = FALSE
    /\ renderData = NoRenderData
    /\ computeData = NoComputeData
    /\ shaders = {}
    /\ lastBatch = DefaultBatch
    /\ extent = <<960, 540>>
    /\ swapchains = 0
    /\ outcome = "init"
    /\ calls = 0
    /\ resizes = 0
    /\ batchArg = DefaultBatch
    /\ copies = 0
    /\ mod_time = [p \in RescanPaths |-> 1]
    /\ compiles = [p \in RescanPaths |-> TRUE]
    /\ shader_mod_time = [p \in RescanPaths |-> 0]
    /\ ubo_resolution = <<960, 540>>
    /\ acquired = InitOrder
    /\ released = <<>>
    /\ frame = NoFrame
    /\ destroyed = NoDestroy
    /\ edited = FALSE

\* no submission is executing on the GPU
GpuIdle == ~inFlight /\ copies = 0

\* Device::wait_idle returns once the GPU is idle
DeviceWaitSkipped == TRUE

DeviceWaitIdle == GpuIdle

\* Queue::wait_idle, a blocking wait for queue idle: it returns once the one
\* queue of the device has nothing left to execute
QueueWaitIdle == GpuIdle

\* draw_batch from its entry to the first queue.wait_idle: device.wait_idle,
\* the vertex, index and uniform data written to the staging buffer, the
\* copy recorded into the command buffer and submitted without a fence
UploadData(batch) ==
    /\ rpc = "idle"
    /\ calls < MaxCalls
    /\ DeviceWaitIdle
    /\ calls' = calls + 1
    /\ batchArg' = batch
    /\ copies' = copies + 1
    /\ rpc' = "data_wait"
    /\ frame' = [frame EXCEPT !.repeat = calls > 0 /\ batch = batchArg /\ ~edited]
    /\ edited' = FALSE
    /\ destroyed' = NoDestroy
    /\ instances' = NoInstances(instances.render_distance)
    /\ UNCHANGED <<fence, inFlight, renderData, computeData, shaders, lastBatch, extent,
                   swapchains, outcome, resizes, mod_time, compiles, shader_mod_time,
                   ubo_resolution, acquired, released>>
    /\ UNCHANGED <<octreeVars, enc, boot>>

\* queue.wait_idle, then the instance offsets: a second copy recorded into
\* the same command buffer and submitted without a fence
UploadInstances ==
    /\ rpc = "data_wait"
    /\ QueueWaitIdle
    /\ copies' = copies + 1
    /\ rpc' = "instance_wait"
    /\ instances' = [instances EXCEPT !.offsets = InstanceOffsets(instances.render_distance),
                                      !.copied = InstanceCopySize]
    /\ UNCHANGED <<fence, inFlight, renderData, computeData, shaders, lastBatch, extent,
                   swapchains, outcome, calls, resizes, batchArg, mod_time, compiles,
                   shader_mod_time, ubo_resolution, acquired, released, frame,
                   destroyed, edited>>
    /\ UNCHANGED <<octreeVars, enc, boot>>

\* mod_time != last_mod_time, where a path without an entry gets
\* SystemTime::now() (written 0), which no file's time equals
ChangedAlways(mt, last) == TRUE

Changed(mt, last) == mt # last

\* shader_mod_time.insert(out_path, mod_time) on a failed compilation
RecordFailureSkipped(seen, out_path, mt) == seen

RecordFailure(seen, out_path, mt) == [seen EXCEPT ![out_path] = mt]

\* faulty variant of DropModule: the stale module stays in the cache
DropModuleSkipped(cache, out_path) == cache

\* self.shaders.remove(out_path.as_str())
DropModule(cache, out_path) == cache \ {out_path}

\* the rescan loop from the i-th source on: a changed source is compiled; a
\* failure records its time and ends the loop (and draw_batch), a success
\* records it too and drops the cached module of its output
RECURSIVE RescanFrom(_, _)
RescanFrom(i, st) ==
    IF i > Len(SourceOrder) THEN st
    ELSE LET out_path == SourceOrder[i]
             mt == mod_time[out_path]
         IN  IF ~Changed(mt, st.seen[out_path]) THEN RescanFrom(i + 1, st)
             ELSE IF ~compiles[out_path]
                  THEN [st EXCEPT !.seen = RecordFailure(@, out_path, mt),
                                  !.compiled = @ \cup {out_path},
                                  !.failed = TRUE]
                  ELSE RescanFrom(i + 1,
                           [st EXCEPT !.seen = [@ EXCEPT ![out_path] = mt],
                                      !.cache = DropModule(@, out_path),
                                      !.compiled = @ \cup {out_path}])

Rescan ==
    RescanFrom(1, [seen |-> shader_mod_time, cache |-> shaders,
                   compiled |-> {}, failed |-> FALSE])

\* the condition of the graphics rebuild
RebuildGraphicsOnLoadOnly(reload_graphics, last, batch) == reload_graphics

RebuildGraphics(reload_graphics, last, batch) ==
    \/ reload_graphics
    \/ last.vertex_shader # batch.vertex_shader
    \/ last.fragment_shader # batch.fragment_shader

\* the condition of the compute rebuild: only the jfa shader is compared
RebuildCompute(reload_compute, last, batch) ==
    reload_compute \/ last.jfa_shader # batch.jfa_shader

\* draw_batch from the second queue.wait_idle to the fence wait: the rescan
\* of the shader sources, the loading of the batch's modules that are not
\* cached, the rebuilds (each after device.wait_idle), last_batch
DrawBatchBegin ==
    /\ rpc = "instance_wait"
    /\ QueueWaitIdle
    /\ LET batch == batchArg
           scan == Rescan
           paths == {batch.vertex_shader, batch.fragment_shader,
                     batch.seed_shader, batch.jfa_shader}
           loaded == paths \ scan.cache
           reload_graphics ==
               batch.vertex_shader \in loaded \/ batch.fragment_shader \in loaded
           reload_compute ==
               batch.seed_shader \in loaded \/ batch.jfa_shader \in loaded
           rebuild_graphics == RebuildGraphics(reload_graphics, lastBatch, batch)
           rebuild_compute == RebuildCompute(reload_compute, lastBatch, batch)
           removed == IF shaders \ scan.cache = {} THEN {} ELSE {"shader_module"}
       IN  /\ shader_mod_time' = scan.seen
           /\ IF scan.failed
              THEN /\ shaders' = scan.cache
                   /\ outcome' = "compile_failed"
                   /\ rpc' = "idle"
                   /\ frame' = [compiled |-> scan.compiled, failed |-> TRUE,
                                loaded |-> {}, repeat |-> frame.repeat,
                                events |-> frame.events]
                   /\ destroyed' = [objects |-> removed, idle |-> GpuIdle]
                   /\ acquired' = TrackShaders(acquired, scan.cache)
                   /\ UNCHANGED <<renderData, computeData, lastBatch, swapchains>>
              ELSE /\ (rebuild_graphics \/ rebuild_compute) => DeviceWaitIdle
                   /\ shaders' = scan.cache \cup paths
                   /\ renderData' =
                         IF rebuild_graphics
                         THEN RenderDataInit(batch.vertex_shader, batch.fragment_shader,
                                             renderData, extent, swapchains + 1)
                         ELSE renderData
                   /\ swapchains' = IF rebuild_graphics THEN swapchains + 1 ELSE swapchains
                   /\ computeData' =
                         IF rebuild_compute
                         THEN ComputeDataInit(batch.seed_shader, batch.jfa_shader,
                                              computeData)
                         ELSE computeData
                   /\ lastBatch' = batch
                   /\ rpc' = "fence_wait"
                   /\ frame' = [compiled |-> scan.compiled, failed |-> FALSE,
                                loaded |-> loaded, repeat |-> frame.repeat,
                                events |-> frame.events]
                   /\ destroyed' =
                         [objects |-> removed
                              \cup (IF rebuild_graphics /\ renderData.present
                                    THEN {"render_data"} ELSE {})
                              \cup (IF rebuild_compute /\ computeData.present
                                    THEN {"compute_data"} ELSE {}),
                          idle |-> GpuIdle]
                   /\ acquired' =
                         LET a1 == TrackShaders(acquired, scan.cache \cup paths)
                             a2 == IF rebuild_graphics
                                   THEN Reacquire(a1, "render_data") ELSE a1
                         IN  IF rebuild_compute THEN Reacquire(a2, "compute_data") ELSE a2
                   /\ UNCHANGED outcome
    /\ UNCHANGED <<fence, inFlight, extent, calls, resizes, batchArg, copies, mod_time,
                   compiles, ubo_resolution, released, edited>>
    /\ UNCHANGED <<octreeVars, enc, boot, instances>>

\* ghost: the synchronisation calls of draw_batch, each with the objects it
\* is given: the fence waited on and reset, the semaphore acquire_next_image
\* signals, the recording of the command buffer, the submission with its
\* wait semaphore, wait stage, signal semaphore and fence, and the present
\* with its wait semaphore
FenceWaited == <<"wait", "in_flight_fence">>

FenceWasReset == <<"reset", "in_flight_fence">>

ImageAcquired == <<"acquire", "image_available_semaphore">>

CommandsRecorded == <<"record", "command_buffer">>

Submitted ==
    <<"submit", "image_available_semaphore", "PIPELINE_STAGE_COLOR_ATTACHMENT_OUTPUT",
      "render_finished_semaphore", "in_flight_fence">>

Presented == <<"present", "render_finished_semaphore">>

\* Fence::wait(&[in_flight_fence], true, u64::MAX) returns once the fence is
\* signalled; Fence::reset then unsignals it
FenceWaitReset ==
    /\ rpc = "fence_wait"
    /\ fence = "signaled"
    /\ fence' = "unsignaled"
    /\ rpc' = "acquire"
    /\ frame' = [frame EXCEPT !.events = <<FenceWaited, FenceWasReset>>]
    /\ UNCHANGED <<inFlight, renderData, computeData, shaders, lastBatch, extent,
                   swapchains, outcome, calls, resizes, batchArg, copies, mod_time,
                   compiles, shader_mod_time, ubo_resolution, acquired, released,
                   destroyed, edited>>
    /\ UNCHANGED <<octreeVars, enc, boot, instances>>

\* the results of vkAcquireNextImageKHR and of vkQueuePresentKHR
AcquireResults == {"Success", "Suboptimal", "OutOfDate"}

PresentResults == {"Success", "OutOfDate"}

\* acquire_next_image maps Success (Timeout, NotReady) to Ok, the rest to Err
AcquireOk(result) == result = "Success"

\* the rest of draw_batch: acquire_next_image; on Err warn and return; else
\* update the descriptor sets, reset and record the command buffer, submit
\* it with the in-flight fence, present, and return whatever present says
AcquireSubmitPresent(acquired_image, presented) ==
    /\ rpc = "acquire"
    /\ rpc' = "idle"
    /\ IF AcquireOk(acquired_image)
       THEN /\ inFlight' = TRUE
            /\ outcome' = IF presented = "Success" THEN "presented" ELSE "present_failed"
            /\ frame' = [frame EXCEPT !.events = @ \o <<ImageAcquired, CommandsRecorded,
                                                         Submitted, Presented>>]
            /\ instances' = [instances EXCEPT
                                !.drawn = InstanceVolume(instances.render_distance)]
       ELSE /\ inFlight' = inFlight
            /\ outcome' = "acquire_failed"
            /\ frame' = [frame EXCEPT !.events = Append(@, ImageAcquired)]
            /\ UNCHANGED instances
    /\ UNCHANGED <<fence, renderData, computeData, shaders, lastBatch, extent,
                   swapchains, calls, resizes, batchArg, copies, mod_time, compiles,
                   shader_mod_time, ubo_resolution, acquired, released,
                   destroyed, edited>>
    /\ UNCHANGED <<octreeVars, enc, boot>>

\* the GPU finishes the draw submission and signals the fence given to submit
GpuCompleteNoFence ==
    /\ inFlight
    /\ inFlight' = FALSE
    /\ UNCHANGED <<rpc, fence, renderData, computeData, shaders, lastBatch, extent,
                   swapchains, outcome, calls, resizes, batchArg, copies, mod_time,
                   compiles, shader_mod_time, ubo_resolution, acquired, released,
                   frame, destroyed, edited>>
    /\ UNCHANGED <<octreeVars, enc, boot, instances>>

GpuComplete ==
    /\ inFlight
    /\ inFlight' = FALSE
    /\ fence' = "signaled"
    /\ UNCHANGED <<rpc, renderData, computeData, shaders, lastBatch, extent,
                   swapchains, outcome, calls, resizes, batchArg, copies, mod_time,
                   compiles, shader_mod_time, ubo_resolution, acquired, released,
                   frame, destroyed, edited>>
    /\ UNCHANGED <<octreeVars, enc, boot, instances>>

\* the GPU finishes an upload copy, which was submitted without a fence
GpuCopyComplete ==
    /\ copies > 0
    /\ copies' = copies - 1
    /\ UNCHANGED <<rpc, fence, inFlight, renderData, computeData, shaders, lastBatch,
                   extent, swapchains, outcome, calls, resizes, batchArg, mod_time,
                   compiles, shader_mod_time, ubo_resolution, acquired, released,
                   frame, destroyed, edited>>
    /\ UNCHANGED <<octreeVars, enc, boot, instances>>

\* Vulkan::resize, called by the host loop between two draw_batch calls;
\* indexing the cache with a missing key and unwrapping None panic
resize(resolution) ==
    /\ rpc = "idle"
    /\ DeviceWaitIdle
    /\ resizes < MaxResizes
    /\ resizes' = resizes + 1
    /\ IF /\ lastBatch.vertex_shader \in shaders
          /\ lastBatch.fragment_shader \in shaders
          /\ renderData.present
       THEN /\ extent' = resolution
            /\ ubo_resolution' = <<AsF32(resolution[1]), AsF32(resolution[2])>>
            /\ renderData' = RenderDataInit(lastBatch.vertex_shader,
                                            lastBatch.fragment_shader,
                                            renderData, resolution, swapchains + 1)
            /\ swapchains' = swapchains + 1
            /\ outcome' = "resized"
            /\ destroyed' = [objects |-> {"render_data"}, idle |-> GpuIdle]
            /\ acquired' = Reacquire(acquired, "render_data")
            /\ UNCHANGED rpc
       ELSE /\ rpc' = "panicked"
            /\ outcome' = "panic"
            /\ extent' = IF /\ lastBatch.vertex_shader \in shaders
                            /\ lastBatch.fragment_shader \in shaders
                         THEN resolution ELSE extent
            /\ ubo_resolution' =
                  IF /\ lastBatch.vertex_shader \in shaders
                     /\ lastBatch.fragment_shader \in shaders
                  THEN <<AsF32(resolution[1]), AsF32(resolution[2])>>
                  ELSE ubo_resolution
            /\ destroyed' = NoDestroy
            /\ UNCHANGED <<renderData, swapchains, acquired>>
    /\ UNCHANGED <<fence, inFlight, computeData, shaders, lastBatch, calls, batchArg,
                   copies, mod_time, compiles, shader_mod_time, released, frame, edited>>
    /\ UNCHANGED <<octreeVars, enc, boot, instances>>

\* the renderer is dropped, by the host at its end or by a panic unwinding:
\* Drop for Vulkan waits for the device, then the fields go in declaration
\* order
VulkanDropNoWait ==
    /\ rpc \in {"idle", "panicked"}
    /\ rpc' = "dropped"
    /\ released' = SelectSeq(DropOrder(shaders), LAMBDA o : o \in Range(acquired))
    /\ destroyed' = [objects |-> Range(acquired), idle |-> GpuIdle]
    /\ UNCHANGED <<fence, inFlight, renderData, computeData, shaders, lastBatch, extent,
                   swapchains, outcome, calls, resizes, batchArg, copies, mod_time,
                   compiles, shader_mod_time, ubo_resolution, acquired, frame, edited>>
    /\ UNCHANGED <<octreeVars, enc, boot, instances>>

VulkanDrop ==
    /\ rpc \in {"idle", "panicked"}
    /\ DeviceWaitIdle
    /\ rpc' = "dropped"
    /\ released' = SelectSeq(DropOrder(shaders), LAMBDA o : o \in Range(acquired))
    /\ destroyed' = [objects |-> Range(acquired), idle |-> GpuIdle]
    /\ UNCHANGED <<fence, inFlight, renderData, computeData, shaders, lastBatch, extent,
                   swapchains, outcome, calls, resizes, batchArg, copies, mod_time,
                   compiles, shader_mod_time, ubo_resolution, acquired, frame, edited>>
    /\ UNCHANGED <<octreeVars, enc, boot, instances>>

\* the developer saves a shader source between two frames; the new text
\* compiles or not
EditSource(out_path, ok) ==
    /\ rpc = "idle"
    /\ mod_time[out_path] <= MaxEdits
    /\ mod_time' = [mod_time EXCEPT ![out_path] = @ + 1]
    /\ compiles' = [compiles EXCEPT ![out_path] = ok]
    /\ edited' = TRUE
    /\ UNCHANGED <<rpc, fence, inFlight, renderData, computeData, shaders, lastBatch,
                   extent, swapchains, outcome, calls, resizes, batchArg, copies,
                   shader_mod_time, ubo_resolution, acquired, released, frame,
                   destroyed>>
    /\ UNCHANGED <<octreeVars, enc, boot, instances>>

----------------------------------------------------------------------------
(* Vulkan::init: physical device and queue family selection *)

\* vk::QUEUE_GRAPHICS, vk::QUEUE_COMPUTE
QUEUE_GRAPHICS == 1

QUEUE_COMPUTE == 2

\* the devices an instance may enumerate: (device_type, max_image_dimension_2d).
\* An integrated device of dimension 16804 scores what a discrete one of
\* dimension 16384 scores
DeviceKinds ==
    [device_type : {"Integrated", "Discrete"}, max_image_dimension_2d : {16384, 16804}]

\* the queue families a device may report, queue_flags and what
\* surface_supported answers for the family: one family that lacks each of
\* the three capabilities and one that has them all
FamilyKinds ==
    {[queue_flags |-> QUEUE_GRAPHICS, surface_supported |-> TRUE],
     [queue_flags |-> QUEUE_COMPUTE, surface_supported |-> TRUE],
     [queue_flags |-> QUEUE_GRAPHICS + QUEUE_COMPUTE, surface_supported |-> FALSE],
     [queue_flags |-> QUEUE_GRAPHICS + QUEUE_COMPUTE, surface_supported |-> TRUE]}

\* the sequences over S of length at most n
SeqsUpTo(S, n) == UNION {[1..k -> S] : k \in 0..n}

\* if device_type == Discrete { suitability += 420 }; suitability += max_image_dimension_2d
Suitability(properties) ==
    (IF properties.device_type = "Discrete" THEN 420 ELSE 0)
        + properties.max_image_dimension_2d

\* enumerate().into_iter().map(|x| (0, x.properties(), x)) with the scores
\* filled in; the handle x is the 0-based position in the enumeration
Candidates(devices) ==
    [i \in 1..Len(devices) |->
        [suitability |-> Suitability(devices[i]), handle |-> i - 1]]

\* the sorted vector with c inserted behind every element that does not
\* compare greater: equal elements keep their order
RECURSIVE InsertSorted(_, _)
InsertSorted(sorted, c) ==
    IF sorted = <<>> THEN <<c>>
    ELSE IF Head(sorted).suitability > c.suitability THEN <<c>> \o sorted
    ELSE <<Head(sorted)>> \o InsertSorted(Tail(sorted), c)

\* candidates.sort_by(|(a, _, _), (b, _, _)| a.cmp(b)): stable, ascending
RECURSIVE SortBy(_)
SortBy(candidates) ==
    IF candidates = <<>> THEN <<>>
    ELSE InsertSorted(SortBy(SubSeq(candidates, 1, Len(candidates) - 1)),
                      candidates[Len(candidates)])

\* candidates.remove(0) of the sorted vector
SelectPhysicalDevice(devices) == Head(SortBy(Candidates(devices))).handle

\* faulty variant of FamilySuitable: compute support is not asked for
FamilySuitableNoCompute(queue_family) ==
    /\ BitAnd(queue_family.queue_flags, QUEUE_GRAPHICS) # 0
    /\ queue_family.surface_supported

\* the three tests of the loop body, none of which continues
FamilySuitable(queue_family) ==
    /\ BitAnd(queue_family.queue_flags, QUEUE_GRAPHICS) # 0
    /\ BitAnd(queue_family.queue_flags, QUEUE_COMPUTE) # 0
    /\ queue_family.surface_supported

\* the loop over queue_families.iter().enumerate() from family i on, breaking
\* at the first suitable family; -1 is None
RECURSIVE SelectQueueFamilyFrom(_, _)
SelectQueueFamilyFrom(queue_families, i) ==
    IF i >= Len(queue_families) THEN -1
    ELSE IF FamilySuitable(queue_families[i + 1]) THEN i
    ELSE SelectQueueFamilyFrom(queue_families, i + 1)

SelectQueueFamily(queue_families) == SelectQueueFamilyFrom(queue_families, 0)

\* init has run: nothing of its selection is kept but the device and queue
Booted == [phase |-> "ready", devices |-> <<>>, physical_device |-> 0,
           queue_families |-> <<>>, queue_family_index |-> 0]

\* init stands before PhysicalDevice::enumerate returns devices
Enumerated(devices) ==
    [phase |-> "enumerated", devices |-> devices, physical_device |-> -1,
     queue_families |-> <<>>, queue_family_index |-> -1]

\* let physical_device = { ... }; let queue_families = physical_device.queue_families()
PickPhysicalDevice(queue_families) ==
    /\ boot.phase = "enumerated"
    /\ IF Len(boot.devices) = 0
       THEN boot' = [boot EXCEPT !.phase = "panic"]
       ELSE boot' = [boot EXCEPT !.phase = "device",
                                 !.physical_device = SelectPhysicalDevice(boot.devices),
                                 !.queue_families = queue_families]
    /\ UNCHANGED <<octreeVars, enc, rendererVars, instances>>

\* the queue family loop and queue_family_index.expect(..)
PickQueueFamily ==
    /\ boot.phase = "device"
    /\ LET i == SelectQueueFamily(boot.queue_families)
       IN  boot' = [boot EXCEPT !.phase = IF i = -1 THEN "panic" ELSE "queue",
                                !.queue_family_index = i]
    /\ UNCHANGED <<octreeVars, enc, rendererVars, instances>>

----------------------------------------------------------------------------
(* Inputs of the octree operations *)

\* coordinates given to place(): paths of depth 8 that part at the root, in
\* the middle of the tree and at the leaves
PlacePoints ==
    {<<0, 0, 0>>, <<1, 0, 0>>, <<0, 1, 0>>, <<7, 7, 7>>, <<255, 255, 255>>}

PlacePaths == {get_position_hierarchy(PlaceSize, p[1], p[2], p[3]) : p \in PlacePoints}

\* the hierarchies of an 8x8x8 domain handed to add_node directly
ShallowPath(p) == get_position_hierarchy(3, p[1], p[2], p[3])

ShallowPoints == {<<0, 0, 0>>, <<1, 0, 0>>, <<0, 1, 0>>}

ShallowPaths == {ShallowPath(p) : p \in ShallowPoints}

\* the hierarchies get_node is called with, of both depths, one of them
\* never inserted
LookupPaths ==
    {get_position_hierarchy(PlaceSize, 0, 0, 0), get_position_hierarchy(PlaceSize, 1, 0, 0),
     ShallowPath(<<0, 0, 0>>), ShallowPath(<<7, 7, 7>>)}

\* octant selectors that are not single bits
BadMasks == {0, 3}

BadHierarchies ==
    {[h EXCEPT ![i] = b] : h \in {ShallowPath(<<0, 0, 0>>)}, i \in 1..3, b \in BadMasks}

HasInvalidMask(h) == \E i \in 1..Len(h) : CountOnes(h[i]) # 1

\* the k-th completed insertion writes payload k: all payloads are distinct
NextBlocks == {Len(history) + 1}

----------------------------------------------------------------------------
(* The octree store as a state machine *)

NoCall == [op |-> "new", hierarchy |-> <<>>, kind |-> "Some", index |-> 0,
           block |-> DefaultBlock, defensive |-> FALSE]

\* Octree::new()
OctreeNew ==
    /\ data = <<DefaultNode>>
    /\ size = 0
    /\ history = <<>>
    /\ ret = NoCall

EncIdle == [size |-> 0, x |-> 0, y |-> 0, z |-> 0, hierarchy |-> <<>>, done |-> FALSE]

Running == ret.kind # "panic"

\* let node = self.add_node(&hierarchy[..]); node.unwrap().block = cubelet
InsertBlock(op, h, cubelet) ==
    LET r == add_node(data, h)
    IN  IF r.panic
        THEN /\ data' = r.data
             /\ history' = history
             /\ ret' = [op |-> op, hierarchy |-> h, kind |-> "panic", index |-> r.index,
                        block |-> DefaultBlock, defensive |-> FALSE]
        ELSE /\ data' = [r.data EXCEPT ![r.index + 1].block = cubelet]
             /\ history' = Append(history, h)
             /\ ret' = [op |-> op, hierarchy |-> h, kind |-> "Some", index |-> r.index,
                        block |-> cubelet, defensive |-> FALSE]

\* Octree::place
place(x, y, z, cubelet) ==
    /\ Running
    /\ Len(history) < MaxInserts
    /\ size' = PlaceSize
    /\ InsertBlock("place", get_position_hierarchy(PlaceSize, x, y, z), cubelet)
    /\ UNCHANGED <<enc, rendererVars, boot, instances>>

\* add_node called with a hierarchy of the caller's making, the node it
\* returns written as place writes it
AddNodeCall(h, cubelet) ==
    /\ Running
    /\ Len(history) < MaxInserts
    /\ InsertBlock("add_node", h, cubelet)
    /\ UNCHANGED <<size, enc, rendererVars, boot, instances>>

\* Octree::get_node called by a reader of the store
GetNodeCall(h) ==
    /\ Running
    /\ ret' = [op |-> "get_node", hierarchy |-> h] @@ get_node(data, h)
    /\ UNCHANGED <<data, size, history, enc, rendererVars, boot, instances>>

Init ==
    /\ OctreeNew
    /\ enc = EncIdle
    /\ VulkanInit
    /\ boot = Booted
    /\ instances = NoInstances(MaxRenderDistance)

Next ==
    \/ \E p \in PlacePoints, c \in NextBlocks : place(p[1], p[2], p[3], c)
    \/ \E h \in ShallowPaths \cup BadHierarchies, c \in NextBlocks : AddNodeCall(h, c)
    \/ \E h \in LookupPaths \cup BadHierarchies : GetNodeCall(h)

Spec == Init /\ [][Next]_vars

----------------------------------------------------------------------------
(* The encoder run on its own *)

EncCoords(d) ==
    IF d <= MaxFullDepth THEN 0..(Pow2(d) - 1)
    ELSE {0, Pow2(d - 1) - 1, Pow2(d - 1), Pow2(d) - 1}

InitEncoder ==
    /\ OctreeNew
    /\ VulkanInit
    /\ boot = Booted
    /\ instances = NoInstances(MaxRenderDistance)
    /\ \E d \in 1..PlaceSize :
         \E x \in EncCoords(d), y \in EncCoords(d), z \in EncCoords(d) :
            enc = [size |-> d, x |-> x, y |-> y, z |-> z, hierarchy |-> <<>>,
                   done |-> FALSE]

\* a call of get_position_hierarchy on a tree whose size is enc.size
Encode ==
    /\ ~enc.done
    /\ enc' = [enc EXCEPT !.hierarchy = get_position_hierarchy(enc.size, enc.x, enc.y, enc.z),
                          !.done = TRUE]
    /\ UNCHANGED <<octreeVars, rendererVars, boot, instances>>

NextEncoder == Encode

SpecEncoder == InitEncoder /\ [][NextEncoder]_vars

----------------------------------------------------------------------------
(* What the ghost history says about the tree *)

Inserted == {history[k] : k \in 1..Len(history)}

\* the payload of the last completed insertion at h
LastWritten(h) ==
    CHOOSE k \in 1..Len(history) :
        history[k] = h /\ \A j \in (k + 1)..Len(history) : history[j] # h

IsPrefix(a, b) == Len(a) <= Len(b) /\ SubSeq(b, 1, Len(a)) = a

\* the hierarchies the tree is probed with in every state
Probes == PlacePaths \cup ShallowPaths \cup LookupPaths

InsertOps == {"place", "add_node"}

\* the octant bits of a valid mask (masks are u8: no bit above 7 is ever set)
SetBits(valid) == {b \in 0..7 : (valid \div Pow2(b)) % 2 = 1}

\* the nodes reachable from the node at idx, each with the masks leading to
\* it, the child for bit b taken at child + popcount(valid & (2^b - 1))
RECURSIVE Live(_, _, _, _)
Live(d, idx, path, fuel) ==
    IF ~InBounds(d, idx) \/ fuel = 0 THEN {[path |-> path, index |-> idx]}
    ELSE LET node == Get(d, idx)
         IN  {[path |-> path, index |-> idx]} \cup
             UNION {Live(d, Offset(node.child, CountOnes(BitAnd(node.valid, Pow2(b) - 1))),
                         Append(path, Pow2(b)), fuel - 1) : b \in SetBits(node.valid)}

LiveNodes == Live(data, 0, <<>>, PlaceSize + 1)

\* every non-empty prefix of an inserted hierarchy, and the root's empty path
InsertedPrefixes ==
    {<<>>} \cup UNION {{SubSeq(h, 1, n) : n \in 1..Len(h)} : h \in Inserted}

----------------------------------------------------------------------------
(* C1: Lookup consistency. After any sequence of place / add_node calls,   *)
(* get_node on every path that was inserted returns Some with the block    *)
(* last written at that exact path, whatever was inserted elsewhere since; *)
(* get_node on a path that was never inserted (and is not a prefix of an   *)
(* inserted one) returns None.                                             *)
C1_LookupConsistency ==
    \A h \in Probes :
        LET r == get_node(data, h)
        IN  /\ h \in Inserted => r.kind = "Some" /\ r.block = LastWritten(h)
            /\ (\A g \in Inserted : ~IsPrefix(h, g)) => r.kind = "None"

\* (1,0,0) was placed, then (0,0,0), whose leaf goes in front of it in a
\* relocated sibling run, and get_node still finds the first payload
C1_Witness ==
    /\ history = <<get_position_hierarchy(PlaceSize, 1, 0, 0),
                   get_position_hierarchy(PlaceSize, 0, 0, 0)>>
    /\ ret.op = "get_node"
    /\ ret.hierarchy = history[1]
    /\ ret.kind = "Some"
    /\ ret.block = 1

(* C2: Sibling ordering invariant. Every node reachable from the root with *)
(* popcount(valid) = k has its k children at [child, child + k), inside    *)
(* the array, in ascending octant order: the node at child + popcount(     *)
(* valid & (m - 1)) is the child for bit m, so that the paths of the tree  *)
(* are exactly the prefixes of the inserted hierarchies, and no array slot *)
(* is the child of two nodes.                                              *)
C2_SiblingOrdering ==
    /\ \A n \in LiveNodes :
          /\ InBounds(data, n.index)
          /\ LET node == Get(data, n.index)
                 k == CountOnes(node.valid)
             IN  k > 0 =>
                    /\ node.child # U32Max
                    /\ node.child >= 1
                    /\ node.child + k <= Len(data)
                    /\ \A b1, b2 \in SetBits(node.valid) :
                          b1 < b2 =>
                             node.child + CountOnes(BitAnd(node.valid, Pow2(b1) - 1))
                               < node.child + CountOnes(BitAnd(node.valid, Pow2(b2) - 1))
    /\ \A n1, n2 \in LiveNodes : n1.index = n2.index => n1.path = n2.path
    /\ Running => {n.path : n \in LiveNodes} = InsertedPrefixes

\* a node one level above the leaves has three leaves, the third inserted
\* between the two others
C2_Witness ==
    /\ history = <<get_position_hierarchy(PlaceSize, 0, 0, 0),
                   get_position_hierarchy(PlaceSize, 1, 0, 0),
                   get_position_hierarchy(PlaceSize, 0, 1, 0)>>
    /\ \E n \in LiveNodes : Len(n.path) = PlaceSize - 1 /\ Get(data, n.index).valid = 21

(* C3: Insertion idempotence. An insertion at a hierarchy that was already *)
(* inserted creates no node: the array keeps its length, every node keeps  *)
(* its valid mask and child index, and the node returned is the one        *)
(* get_node reports for that path, before and after.                       *)
C3_InsertionIdempotent ==
    [][(/\ history' # history
        /\ ret'.op \in InsertOps
        /\ ret'.hierarchy \in Inserted)
       => (/\ Len(data') = Len(data)
           /\ \A i \in 1..Len(data) :
                 data'[i].valid = data[i].valid /\ data'[i].child = data[i].child
           /\ ret'.kind = "Some"
           /\ get_node(data, ret'.hierarchy).kind = "Some"
           /\ get_node(data, ret'.hierarchy).index = ret'.index
           /\ get_node(data', ret'.hierarchy).index = ret'.index)]_vars

\* the third insertion repeats the first, another path inserted in between
C3_Witness ==
    /\ Len(history) = 3
    /\ history[3] = history[1]
    /\ history[2] # history[1]
    /\ ret.op \in InsertOps
    /\ ret.kind = "Some"

----------------------------------------------------------------------------
(* C4: Hierarchy round-trip. Re-walking the masks get_position_hierarchy   *)
(* returns for (x, y, z) at depth d, from half-size 2^(d-1) and adding the *)
(* half-size on each axis whose octant bit is set, gives (x, y, z) back.   *)

\* the octant index of a single-bit mask, -1 for any other value
OctantOf(mask) ==
    IF \E i \in 0..7 : Pow2(i) = mask THEN CHOOSE i \in 0..7 : Pow2(i) = mask ELSE -1

RECURSIVE Decode(_, _, _, _)
Decode(h, level, hsize, acc) ==
    IF level > Len(h) THEN acc
    ELSE LET o == OctantOf(h[level])
         IN  IF o < 0 THEN <<-1, -1, -1>>
             ELSE Decode(h, level + 1, hsize \div 2,
                         <<acc[1] + (o \div 4) * hsize,
                           acc[2] + ((o \div 2) % 2) * hsize,
                           acc[3] + (o % 2) * hsize>>)

\* C4: decoding the masks returned for (x, y, z) gives (x, y, z) back
C4_RoundTrip ==
    enc.done => Decode(enc.hierarchy, 1, Pow2(enc.size) \div 2, <<0, 0, 0>>)
                  = <<enc.x, enc.y, enc.z>>

\* a coordinate of the 8x8x8 domain whose axes take different halves
\* at the first two levels
C4_Witness ==
    /\ enc.done
    /\ enc.size = 3
    /\ <<enc.x, enc.y, enc.z>> = <<5, 2, 7>>
    /\ enc.hierarchy = <<32, 8, 32>>

(* C5: Mask validity. get_position_hierarchy returns exactly `size` masks, *)
(* each with exactly one bit set, at a bit position below 8.               *)
C5_MaskValidity ==
    enc.done =>
       /\ Len(enc.hierarchy) = enc.size
       /\ \A i \in 1..Len(enc.hierarchy) :
             /\ CountOnes(enc.hierarchy[i]) = 1
             /\ \E b \in 0..7 : enc.hierarchy[i] = Pow2(b)

\* the far corner of the deepest domain: eight masks, all the top bit
C5_Witness ==
    /\ enc.done
    /\ enc.size = PlaceSize
    /\ <<enc.x, enc.y, enc.z>> = <<255, 255, 255>>
    /\ enc.hierarchy = <<128, 128, 128, 128, 128, 128, 128, 128>>

----------------------------------------------------------------------------
(* C6: Scenario A. On a new tree, inserting the depth-3 paths of (0,0,0),  *)
(* (1,0,0), (0,1,0) with payloads 1, 2, 3 leaves a root whose valid mask   *)
(* is exactly the octant bits the three paths start with (bit 0 alone);    *)
(* get_node on each of the three paths returns its own payload and         *)
(* get_node on the path of (7,7,7) returns None.                           *)
ScenarioA ==
    history = <<ShallowPath(<<0, 0, 0>>), ShallowPath(<<1, 0, 0>>), ShallowPath(<<0, 1, 0>>)>>

\* C6: after Scenario A the root holds bit 0 alone, each of the three paths
\* returns its own payload and the path of (7,7,7) returns None
C6_ScenarioA ==
    ScenarioA =>
       /\ SetBits(Get(data, 0).valid) = {OctantOf(history[k][1]) : k \in 1..3}
       /\ Get(data, 0).valid = 1
       /\ \A k \in 1..3 :
             get_node(data, history[k]).kind = "Some" /\ get_node(data, history[k]).block = k
       /\ get_node(data, ShallowPath(<<7, 7, 7>>)).kind = "None"

\* the scenario was run and (7,7,7) was then looked up
C6_Witness ==
    /\ ScenarioA
    /\ ret.op = "get_node"
    /\ ret.hierarchy = ShallowPath(<<7, 7, 7>>)
    /\ ret.kind = "None"

(* C7: Node sentinel invariant. Every node of the array, live or left      *)
(* behind in an old sibling run, has child = u32::MAX exactly when its     *)
(* valid mask is 0; get_node never returns None for a valid bit whose node *)
(* has no children.                                                        *)
C7_SentinelInvariant ==
    /\ \A i \in 1..Len(data) : (data[i].child = U32Max) <=> (data[i].valid = 0)
    /\ \A h \in Probes : ~get_node(data, h).defensive
    /\ ret.op = "get_node" => ~ret.defensive

\* a sibling run was relocated, leaving dead nodes behind, and a lookup
\* ended in None at a node that has children
C7_Witness ==
    /\ Len(data) > Cardinality(LiveNodes)
    /\ ret.op = "get_node"
    /\ ret.kind = "None"
    /\ InBounds(data, ret.index)
    /\ Get(data, ret.index).valid # 0

(* C8: Fail-fast on insertion. add_node given a hierarchy that contains a  *)
(* mask whose popcount is not 1 panics and returns no node.                *)
C8_AddNodeFailsFast ==
    (ret.op \in InsertOps /\ HasInvalidMask(ret.hierarchy)) => ret.kind = "panic"

\* the invalid mask is the last one, below two levels that already exist
C8_Witness ==
    /\ ret.op = "add_node"
    /\ ret.hierarchy = <<1, 1, 3>>
    /\ ShallowPath(<<0, 0, 0>>) \in Inserted
    /\ ret.kind = "panic"

(* C9: Fail-fast on lookup. get_node given a hierarchy that contains a     *)
(* mask whose popcount is not 1 panics, whatever the tree holds and        *)
(* wherever the invalid mask stands.                                       *)
C9_GetNodeFailsFast ==
    (ret.op = "get_node" /\ HasInvalidMask(ret.hierarchy)) => ret.kind = "panic"

----------------------------------------------------------------------------
(* The renderer driven by the host loop *)

InitRenderer ==
    /\ OctreeNew
    /\ enc = EncIdle
    /\ VulkanInit
    /\ boot = Booted
    /\ instances = NoInstances(MaxRenderDistance)

NextRenderer ==
    \/ \E b \in Batches : UploadData(b)
    \/ UploadInstances
    \/ DrawBatchBegin
    \/ FenceWaitReset
    \/ \E a \in AcquireResults, p \in PresentResults : AcquireSubmitPresent(a, p)
    \/ GpuComplete
    \/ GpuCopyComplete
    \/ \E r \in Resolutions : resize(r)
    \/ VulkanDrop
    \/ \E p \in RescanPaths, ok \in BOOLEAN : EditSource(p, ok)

SpecRenderer == InitRenderer /\ [][NextRenderer]_vars

----------------------------------------------------------------------------
(* Vulkan::init selecting its device and queue family *)

InitSelection ==
    /\ OctreeNew
    /\ enc = EncIdle
    /\ VulkanInit
    /\ \E devices \in SeqsUpTo(DeviceKinds, MaxDevices) : boot = Enumerated(devices)
    /\ instances = NoInstances(MaxRenderDistance)

NextSelection ==
    \/ \E queue_families \in SeqsUpTo(FamilyKinds, MaxFamilies) :
          PickPhysicalDevice(queue_families)
    \/ PickQueueFamily

SpecSelection == InitSelection /\ [][NextSelection]_vars

----------------------------------------------------------------------------
(* The frames of a renderer that init was given some render distance *)

InitInstances ==
    /\ OctreeNew
    /\ enc = EncIdle
    /\ VulkanInit
    /\ boot = Booted
    /\ \E render_distance \in 1..MaxRenderDistance :
          instances = NoInstances(render_distance)

NextInstances ==
    \/ \E b \in Batches : UploadData(b)
    \/ UploadInstances
    \/ DrawBatchBegin
    \/ FenceWaitReset
    \/ \E a \in AcquireResults, p \in PresentResults : AcquireSubmitPresent(a, p)
    \/ GpuComplete
    \/ GpuCopyComplete

SpecInstances == InitInstances /\ [][NextInstances]_vars

----------------------------------------------------------------------------
(* C10: Frame-local recovery after acquisition failure. After a draw_batch *)
(* call that skipped its frame because image acquisition failed, the next  *)
(* draw_batch call does not block forever at the in-flight fence wait:     *)
(* when it reaches the wait, the fence is signalled or GPU work that will  *)
(* signal it is pending.                                                   *)
C10_RetryAfterAcquireFailure ==
    (rpc = "fence_wait" /\ outcome = "acquire_failed") => (fence = "signaled" \/ inFlight)

----------------------------------------------------------------------------
(* The second draw_batch call of a behaviour reaches its rescan, and it was *)
(* given the batch of the first call with no source saved in between.      *)
SecondCallRescans ==
    /\ calls = 2
    /\ frame.repeat
    /\ rpc = "instance_wait"
    /\ rpc' # "instance_wait"

(* C11 as stated. Scenario B: two consecutive draw_batch calls with the    *)
(* same batch descriptor, with no shader source changing in between,       *)
(* rebuild render data and compute data exactly once in total, in the      *)
(* first call; the second call rebuilds nothing.                           *)
C11_ScenarioB ==
    [][SecondCallRescans =>
          /\ renderData.present
          /\ computeData.present /\ computeData.generation = 1
          /\ renderData' = renderData /\ swapchains' = swapchains
          /\ computeData' = computeData]_vars

(* C11, amended. Scenario B holds when no shader source failed to compile  *)
(* in the first call: the first call then rebuilds render data and compute *)
(* data once each, and the second call rebuilds nothing.                   *)
C11_ScenarioBCompiled ==
    [][(SecondCallRescans /\ ~frame.failed) =>
          /\ renderData.present
          /\ computeData.present /\ computeData.generation = 1
          /\ renderData' = renderData /\ swapchains' = swapchains
          /\ computeData' = computeData]_vars

\* the second call is past its rescan: it compiled and loaded nothing and
\* the one build of each unit is the first call's
C11_Witness ==
    /\ calls = 2 /\ frame.repeat /\ rpc = "fence_wait"
    /\ frame.compiled = {} /\ frame.loaded = {}
    /\ renderData.present /\ computeData.generation = 1

----------------------------------------------------------------------------
(* C12: Scenario C. resize((w,h)) called while render data is present sets *)
(* the stored extent to (w,h) and the resolution uniform to (w,h) as       *)
(* floats, rebuilds render data passing the previous swapchain as the      *)
(* predecessor of the new one, and leaves the instance-scoped objects, the *)
(* fence, compute data, the shader cache and last_batch unchanged.         *)
C12_ScenarioC ==
    [][(rpc = "idle" /\ renderData.present /\ resizes' = resizes + 1) =>
          /\ \E res \in Resolutions :
                /\ extent' = res
                /\ ubo_resolution' = <<AsF32(res[1]), AsF32(res[2])>>
                /\ renderData'.extent = res
          /\ renderData'.present
          /\ renderData'.swapchain # renderData.swapchain
          /\ renderData'.old_swapchain = renderData.swapchain
          /\ Without(acquired', "render_data") = Without(acquired, "render_data")
          /\ UNCHANGED <<fence, computeData, shaders, lastBatch>>]_vars

----------------------------------------------------------------------------
(* C13: Graphics rebuild condition. In a draw_batch call that gets past    *)
(* the shader rescan, render data is torn down and rebuilt (with the GPU   *)
(* idle, the old swapchain passed as predecessor when there is one) if and *)
(* only if the batch's vertex or fragment shader path differs from         *)
(* last_batch's or a vertex/fragment module was loaded into the cache      *)
(* during this call; otherwise render data is left untouched.              *)
C13_GraphicsRebuildCondition ==
    [][(rpc = "instance_wait" /\ rpc' = "fence_wait") =>
          IF \/ lastBatch.vertex_shader # batchArg.vertex_shader
             \/ lastBatch.fragment_shader # batchArg.fragment_shader
             \/ batchArg.vertex_shader \in frame'.loaded
             \/ batchArg.fragment_shader \in frame'.loaded
          THEN /\ renderData'.present
               /\ renderData'.swapchain = swapchains + 1
               /\ swapchains' = swapchains + 1
               /\ renderData'.vertex_shader = batchArg.vertex_shader
               /\ renderData'.fragment_shader = batchArg.fragment_shader
               /\ renderData'.old_swapchain =
                     (IF renderData.present THEN renderData.swapchain ELSE 0)
               /\ renderData.present => "render_data" \in destroyed'.objects
               /\ destroyed'.idle
          ELSE /\ renderData' = renderData
               /\ swapchains' = swapchains
               /\ "render_data" \notin destroyed'.objects]_vars

\* the third call went back to the first call's vertex shader: no module was
\* loaded, and render data was rebuilt from the second call's swapchain
C13_Witness ==
    /\ rpc = "fence_wait" /\ calls = 3
    /\ frame.loaded = {}
    /\ "render_data" \in destroyed.objects
    /\ renderData.old_swapchain = 2

----------------------------------------------------------------------------
(* C14: Compute rebuild condition. In a draw_batch call that gets past the *)
(* shader rescan, compute data is rebuilt whenever either compute shader   *)
(* of the batch (seed or jfa) differs from the corresponding one of        *)
(* last_batch, also when the new shader's module is already in the cache.  *)
C14_ComputeRebuildCondition ==
    [][(/\ rpc = "instance_wait" /\ rpc' = "fence_wait"
        /\ \/ lastBatch.seed_shader # batchArg.seed_shader
           \/ lastBatch.jfa_shader # batchArg.jfa_shader) =>
          /\ computeData'.present
          /\ computeData'.generation = computeData.generation + 1
          /\ computeData'.seed_shader = batchArg.seed_shader
          /\ computeData'.jfa_shader = batchArg.jfa_shader]_vars

----------------------------------------------------------------------------
(* C15: Shader compilation failure handling. When a changed shader source  *)
(* fails to compile during draw_batch's rescan, its modification time is   *)
(* recorded as seen and draw_batch returns before loading any module,      *)
(* rebuilding any pipeline, updating last_batch or submitting a frame; on  *)
(* later draw_batch calls, as long as that file's modification time is     *)
(* unchanged, it is not compiled again.                                    *)
C15_CompileFailure ==
    [][(rpc = "instance_wait" /\ rpc' # "instance_wait") =>
          /\ frame'.failed =>
                /\ \E p \in frame'.compiled :
                      ~compiles[p] /\ shader_mod_time'[p] = mod_time[p]
                /\ rpc' = "idle"
                /\ frame'.loaded = {}
                /\ shaders' \subseteq shaders
                /\ UNCHANGED <<renderData, computeData, swapchains, lastBatch,
                               inFlight, fence>>
          /\ \A p \in RescanPaths :
                (~compiles[p] /\ shader_mod_time[p] = mod_time[p])
                    => p \notin frame'.compiled]_vars

\* a later call got past its rescan without compiling the source that had
\* failed
C15_Witness ==
    /\ rpc = "fence_wait"
    /\ \E p \in RescanPaths :
          ~compiles[p] /\ shader_mod_time[p] = mod_time[p] /\ p \notin frame.compiled

----------------------------------------------------------------------------
(* C16: Present failure is frame-local. When present fails after a         *)
(* successful submit, draw_batch returns normally; the in-flight fence is  *)
(* still signalled by the submitted work, so the next draw_batch call      *)
(* finds the fence signalled at its fence wait and goes on to draw.        *)
C16_PresentFailureFrameLocal ==
    outcome = "present_failed" =>
        /\ rpc # "panicked"
        /\ rpc = "idle" => (inFlight \/ fence = "signaled")
        /\ rpc = "fence_wait" => fence = "signaled"

\* the call after the failed present is past its fence wait
C16_Witness == outcome = "present_failed" /\ rpc = "acquire" /\ calls = 2

----------------------------------------------------------------------------
(* C17: Single frame in flight. At every point of any sequence of          *)
(* draw_batch and resize calls at most one submission of the command       *)
(* buffer (an upload copy or the draw) is pending on the GPU. Each         *)
(* recording of the command buffer is submitted in the same step, so the   *)
(* buffer is never recorded, reset or resubmitted while an earlier         *)
(* submission is pending: that would leave two pending.                    *)
C17_SingleFrameInFlight == copies + (IF inFlight THEN 1 ELSE 0) <= 1

\* the upload of the second call is pending, the draw of the first is over
C17_Witness == copies = 1 /\ calls = 2 /\ outcome = "presented" /\ ~inFlight

----------------------------------------------------------------------------
Reverse(s) == [i \in 1..Len(s) |-> s[Len(s) + 1 - i]]

(* C18: Teardown order. When the renderer is destroyed, its GPU objects    *)
(* (including render data and compute data built later by draw_batch) are  *)
(* released in strict reverse order of their acquisition.                  *)
C18_TeardownOrder == rpc = "dropped" => released = Reverse(acquired)

----------------------------------------------------------------------------
(* C19: Idle before destruction. Every destruction of a device-owned GPU   *)
(* object (old render data in a draw_batch rebuild or in resize, old       *)
(* compute data, a replaced shader module on hot reload, everything at     *)
(* shutdown) happens with the GPU idle: after a wait for the device or the *)
(* queue, with nothing submitted since.                                    *)
C19_IdleBeforeDestruction == destroyed.objects # {} => destroyed.idle

\* a hot reload that replaced a module and both units
C19_Witness ==
    destroyed.objects = {"shader_module", "render_data", "compute_data"}

----------------------------------------------------------------------------
(* C20: Render/compute data atomicity. After init both render data and     *)
(* compute data are absent; at every return of draw_batch or resize each   *)
(* of them is either absent or a complete unit, and render data, when      *)
(* present, was built for the currently stored extent and for the vertex   *)
(* and fragment shader paths of last_batch; once present it never becomes  *)
(* absent again.                                                           *)
C20_Atomicity ==
    /\ []((calls = 0 /\ resizes = 0) => (~renderData.present /\ ~computeData.present))
    /\ [](rpc = "idle" =>
            /\ IF renderData.present
               THEN /\ renderData.swapchain > 0
                    /\ renderData.extent = extent
                    /\ renderData.vertex_shader = lastBatch.vertex_shader
                    /\ renderData.fragment_shader = lastBatch.fragment_shader
               ELSE renderData = NoRenderData
            /\ IF computeData.present
               THEN computeData.generation > 0
               ELSE computeData = NoComputeData)
    /\ [][/\ renderData.present => renderData'.present
          /\ computeData.present => computeData'.present]_vars

\* draw_batch has returned after a resize, with both units built
C20_Witness ==
    /\ rpc = "idle" /\ calls = 2 /\ outcome = "presented"
    /\ renderData.present /\ renderData.extent = <<1920, 1080>>
    /\ computeData.present

----------------------------------------------------------------------------
(* C21: Physical device selection. *)

\* init has bound physical_device
DevicePicked == boot.phase \in {"device", "queue", "panic"} /\ boot.physical_device # -1

\* the score the claim gives a device: 420 if discrete, plus the dimension
Score(d) == (IF d.device_type = "Discrete" THEN 420 ELSE 0) + d.max_image_dimension_2d

\* C21: the device init selects has the highest suitability score of the
\* enumerated devices and is the first enumerated of those that share its
\* score; init aborts when no device is enumerated
C21_HighestScoreSelected ==
    /\ DevicePicked =>
         LET chosen == boot.devices[boot.physical_device + 1]
         IN  \A i \in 1..Len(boot.devices) :
                /\ Score(boot.devices[i]) <= Score(chosen)
                /\ i < boot.physical_device + 1 => Score(boot.devices[i]) < Score(chosen)
    /\ boot.phase # "ready" /\ boot.devices = <<>> => boot.phase \in {"enumerated", "panic"}

----------------------------------------------------------------------------
(* C22: Queue family selection. *)

\* the family supports graphics, compute and presentation to the surface
AllThree(f) ==
    /\ f.queue_flags % 2 = 1
    /\ (f.queue_flags \div 2) % 2 = 1
    /\ f.surface_supported

\* the queue family loop has run
FamilyLoopDone == boot.phase \in {"queue", "panic"} /\ boot.physical_device # -1

\* C22: once the loop has run, init holds the lowest index of a family that
\* supports graphics, compute and presentation all at once, and has aborted
\* exactly when there is no such family
C22_QueueFamilySelection ==
    FamilyLoopDone =>
        LET suitable == {i \in 0..(Len(boot.queue_families) - 1) :
                            AllThree(boot.queue_families[i + 1])}
        IN  IF suitable = {} THEN boot.phase = "panic"
            ELSE /\ boot.phase = "queue"
                 /\ boot.queue_family_index \in suitable
                 /\ \A i \in suitable : boot.queue_family_index <= i

\* the third family is selected: the first offers graphics and presentation
\* without compute, the second all queue capabilities without presentation
C22_Witness ==
    /\ boot.phase = "queue"
    /\ boot.queue_family_index = 2
    /\ boot.queue_families[1] = [queue_flags |-> QUEUE_GRAPHICS, surface_supported |-> TRUE]
    /\ boot.queue_families[2] =
          [queue_flags |-> QUEUE_GRAPHICS + QUEUE_COMPUTE, surface_supported |-> FALSE]

----------------------------------------------------------------------------
(* C23: Encoder step. *)

\* the coordinate c of the call, inside the sub-cube that level k divides
InSubCube(c, k) == c % Pow2(enc.size - k + 1)

\* the encoder's coordinates after its first k levels
AfterLevels(k) ==
    EncodeLoop([x |-> enc.x, y |-> enc.y, z |-> enc.z, hierarchy |-> <<>>],
               Pow2(enc.size), 0, k)

\* C23: at every level k the mask is 1 << (4*px + 2*py + pz), px, py, pz
\* telling whether x, y, z inside the current sub-cube are at least its half
\* size h; the coordinates the level leaves are those less px*h, py*h, pz*h
\* and never below zero; a coordinate of 2^depth - 1 takes the upper half on
\* its axis at every level
C23_EncoderStep ==
    enc.done =>
        \A k \in 1..enc.size :
            LET h == Pow2(enc.size - k)
                px == Bit(InSubCube(enc.x, k) >= h)
                py == Bit(InSubCube(enc.y, k) >= h)
                pz == Bit(InSubCube(enc.z, k) >= h)
                after == AfterLevels(k)
                top == Pow2(enc.size) - 1
            IN  /\ enc.hierarchy[k] = Pow2(4 * px + 2 * py + pz)
                /\ after.x = InSubCube(enc.x, k) - px * h /\ after.x >= 0
                /\ after.y = InSubCube(enc.y, k) - py * h /\ after.y >= 0
                /\ after.z = InSubCube(enc.z, k) - pz * h /\ after.z >= 0
                /\ enc.x = top => (enc.hierarchy[k] \in {16, 32, 64, 128})
                /\ enc.y = top => (enc.hierarchy[k] \in {4, 8, 64, 128})
                /\ enc.z = top => (enc.hierarchy[k] \in {2, 8, 32, 128})

\* (255, 0, 255) of a depth-8 tree encoded: octant 5 at all eight levels
C23_Witness ==
    /\ enc.done
    /\ enc.size = PlaceSize
    /\ enc.x = Pow2(PlaceSize) - 1 /\ enc.y = 0 /\ enc.z = Pow2(PlaceSize) - 1
    /\ enc.hierarchy = [k \in 1..PlaceSize |-> 32]

----------------------------------------------------------------------------
(* C24: Append-only frame of insertion. *)

\* Octree::new() leaves one node: no child bit, the sentinel, the default payload
RootOnly == data = <<[valid |-> 0, child |-> U32Max, block |-> DefaultBlock]>>

\* the entries of the array before the step whose mask or child index the
\* step changes, as positions of the sequence
Regrown ==
    {i \in 1..Len(data) : data'[i].valid # data[i].valid \/ data'[i].child # data[i].child}

\* the sequence s without its j-th element
Omit(s, j) == SubSeq(s, 1, j - 1) \o SubSeq(s, j + 1, Len(s))

\* the levels of h that no earlier insertion walked: each creates a child
Created(h) ==
    Len(h) - CHOOSE n \in 0..Len(h) :
                /\ SubSeq(h, 1, n) \in InsertedPrefixes
                /\ \A k \in (n + 1)..Len(h) : SubSeq(h, 1, k) \notin InsertedPrefixes

\* a completed insertion: no entry moves or is removed; an entry present
\* before changes only by gaining one valid bit together with a child index
\* that points at the old end of the array (beside the payload written into
\* the returned node); a node with q children that gains one makes the array
\* grow by q + 1 entries at the end, the old run with the new child among
\* it, and every further level of the path by one entry
AppendOnlyStep ==
    ret'.op \in InsertOps /\ ret'.kind = "Some" /\ ret' # ret =>
        /\ Len(data') >= Len(data)
        /\ \A i \in 1..Len(data) : data'[i].block = data[i].block \/ i = ret'.index + 1
        /\ \A i \in Regrown :
              LET mask == data'[i].valid - data[i].valid
              IN  /\ CountOnes(mask) = 1
                  /\ BitAnd(data[i].valid, mask) = 0
                  /\ data'[i].child = Len(data)
        /\ IF Created(ret'.hierarchy) = 0
           THEN Regrown = {} /\ Len(data') = Len(data)
           ELSE \E i \in 1..Len(data) :
                   LET q == CountOnes(data[i].valid)
                   IN  /\ Regrown = {i}
                       /\ Len(data') = Len(data) + (q + 1) + (Created(ret'.hierarchy) - 1)
                       /\ q > 0 =>
                            \E p \in 1..(q + 1) :
                               Omit(SubSeq(data', Len(data) + 1, Len(data) + q + 1), p)
                                  = SubSeq(data, data[i].child + 1, data[i].child + q)

\* C24: the store starts as one root node (empty mask, sentinel child,
\* default payload); an insertion changes entries already in the array only
\* by setting a valid bit and the child index of a node that gains a child,
\* never shrinks the array, and appends q + 1 entries for a child created
\* under a node with q children, whose old run stays where it was
C24_AppendOnly == RootOnly /\ [][AppendOnlyStep]_vars

\* (1,0,0) then (0,0,0) placed: the second leaf parts from the first at the
\* last level, the two-leaf run is appended at 9..10 and the old one-leaf
\* run at 8 is left behind with its payload
C24_Witness ==
    /\ history = <<get_position_hierarchy(PlaceSize, 1, 0, 0),
                   get_position_hierarchy(PlaceSize, 0, 0, 0)>>
    /\ ret.op = "place"
    /\ Len(data) = 11
    /\ Get(data, 7).child = 9
    /\ Get(data, 8).block = 1
    /\ Get(data, 9).block = 2
    /\ Get(data, 10).block = 1

----------------------------------------------------------------------------
(* C25: Frame submission ordering. *)

\* the order of a call that reaches present
FrameOrder ==
    <<FenceWaited, FenceWasReset, ImageAcquired, CommandsRecorded, Submitted, Presented>>

\* C25: a draw_batch call that reaches present has waited on the in-flight
\* fence, reset it, acquired an image (signalling image-available), recorded
\* the command buffer, submitted it (waiting on image-available at the color
\* attachment output stage, signalling render-finished and the fence) and
\* presented (waiting on render-finished), in this order; the fence is reset
\* only right after it was waited on; and when a call comes to wait on the
\* fence, the last reset of the fence was followed by a submission that
\* signals it
C25_FrameOrdering ==
    /\ Presented \in Range(frame.events) => frame.events = FrameOrder
    /\ \A i \in 1..Len(frame.events) :
          frame.events[i] = FenceWasReset => i > 1 /\ frame.events[i - 1] = FenceWaited
    /\ rpc = "fence_wait" =>
          \A i \in 1..Len(frame.events) :
              frame.events[i] = FenceWasReset =>
                  \E j \in (i + 1)..Len(frame.events) : frame.events[j] = Submitted

----------------------------------------------------------------------------
(* C26: Hot reload takes effect in the same frame. *)

\* C26: in a draw_batch call whose rescan compiled sources and met no
\* failure, the cached module of every compiled output is dropped: an output
\* the batch does not name is out of the cache after the call, one it names
\* is loaded anew in the call, and the unit using it is rebuilt in the call,
\* render data for the vertex or fragment shader, compute data for a compute
\* shader, also when the batch equals last_batch
C26_HotReloadSameFrame ==
    [][(rpc = "instance_wait" /\ rpc' = "fence_wait") =>
          \A p \in frame'.compiled :
             /\ IF p \in {batchArg.vertex_shader, batchArg.fragment_shader,
                          batchArg.seed_shader, batchArg.jfa_shader}
                THEN p \in frame'.loaded /\ p \in shaders'
                ELSE p \notin shaders'
             /\ p \in {batchArg.vertex_shader, batchArg.fragment_shader} =>
                   /\ renderData'.present
                   /\ renderData'.swapchain = swapchains + 1
                   /\ swapchains' = swapchains + 1
             /\ p \in {batchArg.seed_shader, batchArg.jfa_shader} =>
                   /\ computeData'.present
                   /\ computeData'.generation = computeData.generation + 1]_vars

\* the second call draws the batch of the first, whose vertex shader source
\* was saved in between: the call compiled it, loaded the new module and
\* built render data a second time, compute data staying as it was
C26_Witness ==
    /\ calls = 2 /\ resizes = 0 /\ rpc = "fence_wait"
    /\ frame.compiled = {"default.vs.spirv"}
    /\ frame.loaded = {"default.vs.spirv"}
    /\ shaders = {"default.vs.spirv", "default.fs.spirv", "seed.cs.spirv", "jfa.cs.spirv"}
    /\ lastBatch.vertex_shader = "default.vs.spirv"
    /\ swapchains = 2 /\ renderData.swapchain = 2
    /\ computeData.generation = 1

----------------------------------------------------------------------------
(* C27: resize is total over reachable states. *)

\* C27: whenever the host loop hands a resize event to the renderer, before
\* the first draw_batch, after a draw_batch that returned early or after a
\* drawn frame, resize returns without a panic and render data is present
\* and built for the new extent
C27_ResizeTotal ==
    [][(rpc = "idle" /\ resizes' = resizes + 1) =>
          /\ rpc' = "idle"
          /\ outcome' = "resized"
          /\ renderData'.present
          /\ renderData'.extent = extent'
          /\ extent' \in Resolutions]_vars

----------------------------------------------------------------------------
(* C29: Shader cache covers the active batch. *)

\* C29: between two calls, whenever render data is present, the cache holds
\* a module for the vertex shader and for the fragment shader of last_batch
C29_CacheCoversLastBatch ==
    (rpc = "idle" /\ renderData.present) =>
        /\ lastBatch.vertex_shader \in shaders
        /\ lastBatch.fragment_shader \in shaders

----------------------------------------------------------------------------
(* C28: No corruption on contract violation. *)

\* C28: a call of add_node that panics at a mask whose popcount is not 1
\* leaves the node array as it was before the call: the levels walked before
\* the invalid mask have set no valid bit, changed no child index and
\* appended no node
C28_NoCorruptionOnAbort ==
    [][(ret'.op \in InsertOps /\ ret'.kind = "panic" /\ HasInvalidMask(ret'.hierarchy))
          => data' = data]_vars

----------------------------------------------------------------------------
(* C30: Instance data covers the draw. *)

\* C30: in a call that drew, the instance count of the draw is
\* (2 * render_distance)^3, as many offsets were uploaded in the call, and
\* these offsets, 12 bytes each, lie within the 32768 bytes copied into the
\* instance buffer, which the buffer holds
C30_InstancesCoverDraw ==
    instances.drawn > 0 =>
        /\ instances.drawn = (2 * instances.render_distance) ^ 3
        /\ instances.offsets = instances.drawn
        /\ instances.offsets * OffsetSize <= instances.copied
        /\ instances.copied <= InstanceBufferSize

====
